---- MODULE Spec2Model ----
(***************************************************************************)
(* tools/codegen/gen_backend_stubs.py: parse_backend_yaml (the manifest    *)
(* validator and backend-index builder) and run (the orchestration that    *)
(* writes the three generated artifacts).                                  *)
(***************************************************************************)
EXTENDS Naturals, Sequences, FiniteSets, TLC

VARIABLES
    backend_indices,  \* the shared dispatch-key -> BackendIndex table of the call sequence
    call,             \* the parse_backend_yaml call that has just ended, or NoCall
    source_yaml,      \* the manifest document a run reads
    runs              \* per run of the tool: position, table, returned keys, writes

vars == <<backend_indices, call, source_yaml, runs>>

(***************************************************************************)
(* Bounds.                                                                 *)
(***************************************************************************)
\* longest coverage list (supported, autograd) of a manifest
MaxLen == 2
\* longest coverage list of the manifest that is given to two runs
MaxLenTwoRuns == 1
\* longest coverage list of a manifest that lacks a required field or has an unknown key
MaxLenFaulty == 1

(***************************************************************************)
(* YAML values as yaml.load returns them.  Python's None is the YAML null. *)
(***************************************************************************)
YNull == [tag |-> "null", items |-> <<>>]
YInt == [tag |-> "int", items |-> <<>>]
YStr(s) == [tag |-> "str", items |-> <<s>>]
YList(l) == [tag |-> "list", items |-> l]
\* a mapping: its keys in document order and its entries (a Python dict)
YMap(keys, d) == [tag |-> "map", items |-> keys, entries |-> d]

\* the characters of the strings the manifests use, as iterating a str yields them
Chars(s) ==
    CASE s = "" -> <<>>
      [] s = "add" -> <<"a", "d", "d">>

\* len(x) is defined: x is a list, a str or a dict (not None, not an int)
HasLen(v) == v.tag \in {"list", "str", "map"}

\* what "for op in x" yields: the items of a list, the characters of a str, the keys
\* of a dict; len(x) is the length of this sequence
Elements(v) ==
    CASE v.tag = "list" -> v.items
      [] v.tag = "str" -> Chars(v.items[1])
      [] v.tag = "map" -> v.items

\* Optional[DispatchKey]: the value of a key that was not produced
None == "None"

\* d[k] = v
SetItem(d, k, v) == [x \in DOMAIN d \cup {k} |-> IF x = k THEN v ELSE d[x]]

\* dict.pop(key, default): the value and the dict without the key
PopValue(d, k, default) == IF k \in DOMAIN d THEN d[k] ELSE default
PopRest(d, k) == [x \in DOMAIN d \ {k} |-> d[x]]

(***************************************************************************)
(* The operation registry: grouped_native_functions and the collaborators  *)
(* of tools.codegen.model / tools.codegen.api.dispatcher.                  *)
(***************************************************************************)
OperatorName(base, overload) == [name |-> base, overload_name |-> overload]

\* OperatorName.parse on the operator strings the manifests use
OperatorNameParse(s) ==
    CASE s = "add" -> OperatorName("add", "")
      [] s = "add.out" -> OperatorName("add", "out")
      [] s = "sub" -> OperatorName("sub", "")
      [] s = "mul" -> OperatorName("mul", "")
      [] OTHER -> OperatorName(s, "")

NativeFunction(base, overload, isOut) ==
    [name |-> OperatorName(base, overload), is_out |-> isOut]

\* dispatcher.name(func): the base name, with _out for an out= variant
DispatcherName(f) == IF f.is_out THEN f.name.name \o "_out" ELSE f.name.name

\* registry items: a NativeFunctionsGroup (functional, out) or a NativeFunction
Group(fs) == [kind |-> "group", functions |-> fs]
Single(f) == [kind |-> "function", functions |-> <<f>>]

grouped_native_functions ==
    << Group(<<NativeFunction("add", "", FALSE), NativeFunction("add", "out", TRUE)>>),
       Single(NativeFunction("sub", "", FALSE)),
       Single(NativeFunction("mul", "", FALSE)) >>

Range(s) == {s[i] : i \in DOMAIN s}

\* all functions of the registry
AllFunctions(items) == UNION {Range(items[i].functions) : i \in DOMAIN items}

\* native_functions_map: f.func.name -> f over the flattened registry
NativeFunctionsMap(items) ==
    [n \in {f.name : f \in AllFunctions(items)} |->
        CHOOSE f \in AllFunctions(items) : f.name = n]

\* DispatchKey.parse: the key that carries the given name
DispatchKeyParse(s) == s

\* the table parse_native_yaml returns: the built-in CPU index
BuiltinIndices ==
    ("CPU" :> [dispatch_key |-> "CPU", use_out_as_primary |-> TRUE,
               index |-> [n \in DOMAIN NativeFunctionsMap(grouped_native_functions) |->
                    [kernel |-> DispatcherName(NativeFunctionsMap(grouped_native_functions)[n]),
                     structured |-> FALSE, external |-> FALSE]]])

(***************************************************************************)
(* parse_backend_yaml.                                                     *)
(***************************************************************************)
NoError == [kind |-> "none", names |-> {}]
Error(kind, names) == [kind |-> kind, names |-> names]

valid_keys == {"backend", "cpp_namespace", "supported", "autograd"}
CoverageLists == {"supported", "autograd"}

\* positions of the list whose operator name is not in the registry map
InvalidPositions(backend_ops, native_functions_map) ==
    {i \in DOMAIN backend_ops :
        OperatorNameParse(backend_ops[i]) \notin DOMAIN native_functions_map}

Min(S) == CHOOSE x \in S : \A y \in S : x <= y

\* BackendMetadata(kernel=kernel_name, structured=False, external=True)
BackendMetadata(f) == [kernel |-> DispatcherName(f), structured |-> FALSE, external |-> TRUE]

\* variant: the dict is created anew in every iteration, so only the last operator stays
MetadataLastOnly(backend_ops, native_functions_map) ==
    [n \in {OperatorNameParse(backend_ops[Len(backend_ops)])} |->
        BackendMetadata(native_functions_map[n])]

\* the metadata dict the loop builds: one entry per operator name of the list
Metadata(backend_ops, native_functions_map) ==
    [n \in {OperatorNameParse(backend_ops[i]) : i \in DOMAIN backend_ops} |->
        BackendMetadata(native_functions_map[n])]

\* BackendIndex(dispatch_key=backend_key, use_out_as_primary=False, index=metadata)
BackendIndex(backend_key, metadata) ==
    [dispatch_key |-> backend_key, use_out_as_primary |-> FALSE, index |-> metadata]

\* the dispatch key of a coverage list: the backend's, or its Autograd one
BackendKeyOf(backend, is_autograd) ==
    IF is_autograd THEN DispatchKeyParse("Autograd" \o backend)
    ELSE DispatchKeyParse(backend)

\* variant: the assertion is missing
KeyIsFreeUnchecked(backend_key, indices) == TRUE

\* assert backend_key not in backend_indices
KeyIsFree(backend_key, indices) == backend_key \notin DOMAIN indices

\* variant: an operator name the registry lacks is skipped instead of asserted
AddBackendIndexSkipping(backend_ops, backend, is_autograd, native_functions_map, indices) ==
    LET backend_key == BackendKeyOf(backend, is_autograd)
        known == SelectSeq(backend_ops,
                    LAMBDA op : OperatorNameParse(op) \in DOMAIN native_functions_map)
    IN  IF ~KeyIsFree(backend_key, indices)
        THEN [error |-> Error("duplicate_key", {backend_key}),
              key |-> None, indices |-> indices]
        ELSE [error |-> NoError, key |-> backend_key,
              indices |-> SetItem(indices, backend_key,
                                  BackendIndex(backend_key,
                                      Metadata(known, native_functions_map)))]

\* variant: the index is put in the table before the operator names are resolved
AddBackendIndexRegisterFirst(backend_ops, backend, is_autograd, native_functions_map, indices) ==
    LET backend_key == BackendKeyOf(backend, is_autograd)
        bad == InvalidPositions(backend_ops, native_functions_map)
        known == SelectSeq(backend_ops,
                    LAMBDA op : OperatorNameParse(op) \in DOMAIN native_functions_map)
        registered == SetItem(indices, backend_key,
                              BackendIndex(backend_key, Metadata(known, native_functions_map)))
    IN  IF ~KeyIsFree(backend_key, indices)
        THEN [error |-> Error("duplicate_key", {backend_key}),
              key |-> None, indices |-> indices]
        ELSE IF bad # {}
        THEN [error |-> Error("invalid_operator", {backend_ops[Min(bad)]}),
              key |-> None, indices |-> registered]
        ELSE [error |-> NoError, key |-> backend_key, indices |-> registered]

\* add_backend_index: the key it returns, the table it leaves, the error it raises
AddBackendIndex(backend_ops, backend, is_autograd, native_functions_map, indices) ==
    LET backend_key == BackendKeyOf(backend, is_autograd)
        bad == InvalidPositions(backend_ops, native_functions_map)
    IN  IF bad # {}
        THEN [error |-> Error("invalid_operator", {backend_ops[Min(bad)]}),
              key |-> None, indices |-> indices]
        ELSE IF ~KeyIsFree(backend_key, indices)
        THEN [error |-> Error("duplicate_key", {backend_key}),
              key |-> None, indices |-> indices]
        ELSE [error |-> NoError, key |-> backend_key,
              indices |-> SetItem(indices, backend_key,
                                  BackendIndex(backend_key,
                                      Metadata(backend_ops, native_functions_map)))]

\* variant: the comparison admits the empty list
NonEmptyOrEmpty(l) == Len(l) >= 0

\* len(x) > 0
NonEmpty(l) == Len(l) > 0

\* variant: the leftover keys are not looked at
UnexpectedKeysIgnored(yaml_values) == {}

\* the keys left in yaml_values after the four pops
UnexpectedKeys(yaml_values) ==
    DOMAIN PopRest(PopRest(PopRest(PopRest(yaml_values, "backend"), "cpp_namespace"),
                           "supported"), "autograd")

Raise(err, indices) ==
    [error |-> err, backend_key |-> None, autograd_key |-> None,
     cpp_namespace |-> None, backend_indices |-> indices]

\* assert isinstance(yaml_values, dict)
IsDict(loaded) == loaded.tag = "map"

\* yaml_values as a dict: the entries of the loaded mapping
DictOf(loaded) == IF loaded.tag = "map" THEN loaded.entries ELSE <<>>

\* parse_backend_yaml(backend_yaml_path, grouped_native_functions, backend_indices)
ParseBackendYaml(loaded, items, indices) ==
    LET native_functions_map == NativeFunctionsMap(items)
        yaml_values == DictOf(loaded)
        backend == PopValue(yaml_values, "backend", YNull)
        cpp_namespace == PopValue(yaml_values, "cpp_namespace", YNull)
        popped == PopValue(yaml_values, "supported", YList(<<>>))
        supported == IF popped = YNull THEN YList(<<>>) ELSE popped
        supported_autograd == PopValue(yaml_values, "autograd", YList(<<>>))
    IN  IF ~IsDict(loaded) THEN Raise(Error("not_a_mapping", {}), indices)
        ELSE IF backend = YNull THEN Raise(Error("missing_backend", {"backend"}), indices)
        ELSE IF cpp_namespace = YNull
        THEN Raise(Error("missing_cpp_namespace", {"cpp_namespace"}), indices)
        ELSE IF supported.tag # "list"
        THEN Raise(Error("supported_not_list", {"supported"}), indices)
        ELSE IF UnexpectedKeys(yaml_values) # {}
        THEN Raise(Error("unexpected_keys", UnexpectedKeys(yaml_values)), indices)
        ELSE
        LET plain == IF NonEmpty(Elements(supported))
                     THEN AddBackendIndex(Elements(supported), backend.items[1], FALSE,
                                          native_functions_map, indices)
                     ELSE [error |-> NoError, key |-> None, indices |-> indices]
        IN  IF plain.error # NoError THEN Raise(plain.error, plain.indices)
            \* line 50 re-checks "supported", so any "autograd" value reaches len() at
            \* line 82: None and an int raise TypeError there, a str or a dict is iterated
            ELSE IF ~HasLen(supported_autograd)
            THEN Raise(Error("type_error", {"autograd"}), plain.indices)
            ELSE
            LET auto == IF NonEmpty(Elements(supported_autograd))
                        THEN AddBackendIndex(Elements(supported_autograd), backend.items[1],
                                             TRUE, native_functions_map, plain.indices)
                        ELSE [error |-> NoError, key |-> None, indices |-> plain.indices]
            IN  IF auto.error # NoError THEN Raise(auto.error, auto.indices)
                ELSE [error |-> NoError, backend_key |-> plain.key,
                      autograd_key |-> auto.key,
                      cpp_namespace |-> cpp_namespace.items[1],
                      backend_indices |-> auto.indices]

(***************************************************************************)
(* The manifests the calls are given.                                      *)
(***************************************************************************)
Omit == [tag |-> "omit", items |-> <<>>]
Field(k, v) == IF v = Omit THEN <<>> ELSE (k :> v)

Lists(ops, n) == UNION {[1..k -> ops] : k \in 0..n}

\* the keys of the documents, in the order the documents have them
DocumentKeys == <<"backend", "cpp_namespace", "supported", "autograd", "foo", "bar">>

Entries(b, c, s, a, e) ==
    Field("backend", b) @@ Field("cpp_namespace", c) @@ Field("supported", s)
        @@ Field("autograd", a) @@ [k \in e |-> YInt]

Document(b, c, s, a, e) ==
    YMap(SelectSeq(DocumentKeys, LAMBDA k : k \in DOMAIN Entries(b, c, s, a, e)),
         Entries(b, c, s, a, e))

\* operator strings of the manifests: two registry operators and an unknown one
ManifestOps == {"add", "sub", "bogus"}
UnknownKeys == {"foo", "bar"}

\* values of a coverage field that are not lists: null, an int, strings, mappings
NonLists ==
    {YNull, YInt, YStr(""), YStr("add"),
     YMap(<<>>, <<>>), YMap(<<"sub">>, ("sub" :> YInt)),
     YMap(<<"bogus", "sub">>, ("bogus" :> YInt) @@ ("sub" :> YInt))}

\* the values of the two coverage fields, with lists of at most n operator strings
SupportedValues(n) ==
    {Omit, YNull, YInt, YStr("")} \cup {YList(l) : l \in Lists(ManifestOps, n)}
AutogradValues(n) == {Omit} \cup NonLists \cup {YList(l) : l \in Lists(ManifestOps, n)}

Backends == {YStr("XLA"), YStr("AutogradXLA")}

\* manifests with both required fields and no unknown key
CompleteManifests ==
    {Document(b, YStr("torch_xla"), s, a, {}) :
        b \in Backends, s \in SupportedValues(MaxLen), a \in AutogradValues(MaxLen)}

\* manifests that lack a required field or have unknown keys
FaultyManifests ==
    {Document(f[1], f[2], s, a, f[3]) :
        f \in {g \in (Backends \cup {Omit}) \X {Omit, YStr("torch_xla")}
                        \X SUBSET UnknownKeys :
                    g[1] = Omit \/ g[2] = Omit \/ g[3] # {}},
        s \in SupportedValues(MaxLenFaulty), a \in AutogradValues(MaxLenFaulty)}

Manifests == CompleteManifests \cup FaultyManifests

\* documents that are not a mapping: the empty file, a sequence, a scalar
NonMappings == {YNull, YList(<<"add">>), YStr("XLA")}

Documents == Manifests \cup NonMappings

(***************************************************************************)
(* A sequence of parse_backend_yaml calls on one shared table.             *)
(***************************************************************************)
NoCall == [active |-> FALSE, yaml |-> YNull, before |-> <<>>, result |-> Raise(NoError, <<>>)]

Run(pc) ==
    [pc |-> pc, backend_indices |-> <<>>, backend_key |-> None,
     autograd_key |-> None, cpp_namespace |-> None, filenames |-> {},
     last |-> [filename |-> "", env |-> <<>>]]

RunIds == {1, 2}

Init ==
    /\ backend_indices = BuiltinIndices
    /\ call = NoCall
    /\ source_yaml = YNull
    /\ runs = [r \in RunIds |-> Run("idle")]

\* one call: the document is loaded and parse_backend_yaml runs to its return or raise
Call ==
    /\ ~call.active
    /\ \E y \in Documents :
        LET res == ParseBackendYaml(y, grouped_native_functions, backend_indices)
        IN  /\ backend_indices' = res.backend_indices
            /\ call' = [active |-> TRUE, yaml |-> y, before |-> backend_indices,
                        result |-> res]
    /\ UNCHANGED <<source_yaml, runs>>

\* the caller takes the returned tuple (or the exception) and the frame is gone
Return ==
    /\ call.active
    /\ call' = NoCall
    /\ UNCHANGED <<backend_indices, source_yaml, runs>>

Next == Call \/ Return

Spec == Init /\ [][Next]_vars

(***************************************************************************)
(* The generators run calls (tools.codegen.dest, tools.codegen.utils).     *)
(***************************************************************************)
\* concatMap(func, xs) over a sequence of already mapped lists
RECURSIVE Concat(_)
Concat(lists) == IF lists = <<>> THEN <<>> ELSE Head(lists) \o Concat(Tail(lists))

\* the generated text of one function for one target
Text(target, f) == [target |-> target, kernel |-> DispatcherName(f), schema |-> f.name]

HasKernel(backend_index, f) == f.name \in DOMAIN backend_index.index
LacksKernel(backend_index, f) == f.name \notin DOMAIN backend_index.index

\* dest.compute_native_function_declaration(g, backend_index): one declaration per
\* function of the item that the index has a kernel for
ComputeNativeFunctionDeclaration(g, backend_index) ==
    LET covered == SelectSeq(g.functions, LAMBDA f : HasKernel(backend_index, f))
    IN  [i \in DOMAIN covered |->
            [target |-> "DECLARATION",
             kernel |-> backend_index.index[covered[i].name].kernel,
             schema |-> covered[i].name]]

\* dest.GenExternalAtenFallback(target, backend_index)(g): one fallback per function
\* of the item that the index has no kernel for
GenExternalAtenFallback(target, backend_index, g) ==
    LET uncovered == SelectSeq(g.functions, LAMBDA f : LacksKernel(backend_index, f))
    IN  [i \in DOMAIN uncovered |-> Text(target, uncovered[i])]

\* concatMap(GenExternalAtenFallback(target, backend_index), grouped_native_functions)
FallbackList(target, backend_index, items) ==
    Concat([i \in DOMAIN items |-> GenExternalAtenFallback(target, backend_index, items[i])])

\* list(a_set): the iteration order of a set of strings is whatever the process's
\* string hashing makes it, so every order of the elements is an outcome
ListOfSet(S) ==
    {l \in [1..Cardinality(S) -> S] : \A i, j \in DOMAIN l : l[i] = l[j] => i = j}

(***************************************************************************)
(* run: the substitutions of the three artifacts.                          *)
(***************************************************************************)
\* variant: the two lists are concatenated without the set
ItemDeclarationsNoSet(g, indices, backend_dispatch_key, autograd_dispatch_key) ==
    {ComputeNativeFunctionDeclaration(g, indices[backend_dispatch_key])
     \o ComputeNativeFunctionDeclaration(g, indices[autograd_dispatch_key])}

\* list(set(concatMap(lambda dispatch_key: declaration(f, backend_indices[dispatch_key]),
\*                    [backend_dispatch_key, autograd_dispatch_key]))) for one item
ItemDeclarations(g, indices, backend_dispatch_key, autograd_dispatch_key) ==
    ListOfSet(Range(
        ComputeNativeFunctionDeclaration(g, indices[backend_dispatch_key])
        \o ComputeNativeFunctionDeclaration(g, indices[autograd_dispatch_key])))

\* list(concatMap(<the per-item list>, grouped_native_functions))
RECURSIVE DeclarationsFrom(_, _, _, _, _)
DeclarationsFrom(i, items, indices, backend_dispatch_key, autograd_dispatch_key) ==
    IF i > Len(items) THEN {<<>>}
    ELSE {first \o rest :
            first \in ItemDeclarations(items[i], indices, backend_dispatch_key,
                                       autograd_dispatch_key),
            rest \in DeclarationsFrom(i + 1, items, indices, backend_dispatch_key,
                                      autograd_dispatch_key)}

\* variant: the two lists are concatenated without the sets
FallbackConcat(target, items, indices, backend_dispatch_key, autograd_dispatch_key) ==
    {FallbackList(target, indices[backend_dispatch_key], items)
     \o FallbackList(target, indices[autograd_dispatch_key], items)}

\* list(set(concatMap(fallback under the plain index))
\*      | set(concatMap(fallback under the autograd index)))
FallbackUnion(target, items, indices, backend_dispatch_key, autograd_dispatch_key) ==
    ListOfSet(Range(FallbackList(target, indices[backend_dispatch_key], items))
              \cup Range(FallbackList(target, indices[autograd_dispatch_key], items)))

generated_comment == "Autogenerated file by gen_backend_stubs.py. Do not edit directly!"

\* the substitution maps fm.write may be given for aten_xla_type.h
DeclarationHeaderEnvs(run) ==
    {[generated_comment |-> generated_comment,
      cpp_namespace |-> run.cpp_namespace,
      dispatch_xla_declarations |-> d] :
        d \in DeclarationsFrom(1, grouped_native_functions, run.backend_indices,
                               run.backend_key, run.autograd_key)}

\* ... for aten_xla_type_default.h
FallbackHeaderEnvs(run) ==
    {[generated_comment |-> generated_comment,
      cpp_namespace |-> run.cpp_namespace,
      dispatch_aten_fallback_declarations |-> d] :
        d \in FallbackUnion("NAMESPACED_DECLARATION", grouped_native_functions,
                            run.backend_indices, run.backend_key, run.autograd_key)}

\* ... for aten_xla_type_default.cpp
FallbackSourceEnvs(run) ==
    {[generated_comment |-> generated_comment,
      cpp_namespace |-> run.cpp_namespace,
      dispatch_aten_fallback_definitions |-> d,
      dispatch_registrations |->
          FallbackList("REGISTRATION", run.backend_indices[run.backend_key],
                       grouped_native_functions),
      dispatch_autograd_registrations |->
          FallbackList("REGISTRATION", run.backend_indices[run.autograd_key],
                       grouped_native_functions)] :
        d \in FallbackUnion("NAMESPACED_DEFINITION", grouped_native_functions,
                            run.backend_indices, run.backend_key, run.autograd_key)}

(***************************************************************************)
(* run, step by step.                                                      *)
(***************************************************************************)
\* operator strings of a run's manifest: the registry's and an unknown one
RunOps == {"add", "add.out", "sub", "bogus"}

RunManifests ==
    {Document(b, YStr("torch_xla"), s, a, {}) :
        b \in {YStr("XLA"), YStr("CPU")},
        s \in {Omit} \cup {YList(l) : l \in Lists(RunOps, MaxLen)},
        a \in {Omit, YNull, YStr(""), YMap(<<"sub">>, ("sub" :> YInt))}
                \cup {YList(l) : l \in Lists(RunOps, MaxLen)}}

InitRun ==
    /\ backend_indices = BuiltinIndices
    /\ call = NoCall
    /\ source_yaml \in RunManifests
    /\ runs = [r \in RunIds |-> Run("start")]

\* variant: "or" in place of "and"
EitherKey(backend_key, autograd_key) == backend_key # None \/ autograd_key # None

\* if backend_key is not None and autograd_key is not None
BothKeys(backend_key, autograd_key) == backend_key # None /\ autograd_key # None

\* parse_native_yaml, get_grouped_native_functions, parse_backend_yaml
RunParse(r) ==
    /\ runs[r].pc = "start"
    /\ LET res == ParseBackendYaml(source_yaml, grouped_native_functions, BuiltinIndices)
       IN  runs' = [runs EXCEPT ![r] =
                [@ EXCEPT !.pc = IF res.error = NoError THEN "parsed" ELSE "raised",
                          !.backend_indices = res.backend_indices,
                          !.backend_key = res.backend_key,
                          !.autograd_key = res.autograd_key,
                          !.cpp_namespace = res.cpp_namespace]]
    /\ UNCHANGED <<backend_indices, call, source_yaml>>

\* the condition of line 122 is false: run returns without writing
RunSkip(r) ==
    /\ runs[r].pc = "parsed"
    /\ ~BothKeys(runs[r].backend_key, runs[r].autograd_key)
    /\ runs' = [runs EXCEPT ![r].pc = "done"]
    /\ UNCHANGED <<backend_indices, call, source_yaml>>

\* fm.write(filename, lambda: env); backend_indices[key] of a missing key raises KeyError
Write(r, filename, envs, next) ==
    /\ IF {runs[r].backend_key, runs[r].autograd_key} \subseteq DOMAIN runs[r].backend_indices
       THEN \E env \in envs :
                runs' = [runs EXCEPT ![r] =
                    [@ EXCEPT !.pc = next,
                              !.filenames = @ \cup {filename},
                              !.last = [filename |-> filename, env |-> env]]]
       ELSE runs' = [runs EXCEPT ![r].pc = "raised"]
    /\ UNCHANGED <<backend_indices, call, source_yaml>>

WriteDeclarationHeader(r) ==
    /\ runs[r].pc = "parsed"
    /\ BothKeys(runs[r].backend_key, runs[r].autograd_key)
    /\ Write(r, "aten_xla_type.h", DeclarationHeaderEnvs(runs[r]), "wrote_type_h")

WriteFallbackHeader(r) ==
    /\ runs[r].pc = "wrote_type_h"
    /\ Write(r, "aten_xla_type_default.h", FallbackHeaderEnvs(runs[r]), "wrote_default_h")

WriteFallbackSource(r) ==
    /\ runs[r].pc = "wrote_default_h"
    /\ Write(r, "aten_xla_type_default.cpp", FallbackSourceEnvs(runs[r]), "done")

RunStep(r) ==
    \/ RunParse(r)
    \/ RunSkip(r)
    \/ WriteDeclarationHeader(r)
    \/ WriteFallbackHeader(r)
    \/ WriteFallbackSource(r)

\* one run of the tool
NextRun == RunStep(1)
SpecRun == InitRun /\ [][NextRun]_vars

\* two runs of the tool on the same registry and manifest
InitTwoRuns ==
    /\ InitRun
    /\ \A k \in CoverageLists :
            k \in DOMAIN source_yaml.entries =>
                Len(source_yaml.entries[k].items) <= MaxLenTwoRuns

NextTwoRuns == \E r \in RunIds : RunStep(r)
SpecTwoRuns == InitTwoRuns /\ [][NextTwoRuns]_vars

(***************************************************************************)
(* Vocabulary of the properties of a parse_backend_yaml call: the document *)
(* it was given (call.yaml), the table before it (call.before), what it    *)
(* returned or raised (call.result) and the table now (backend_indices).   *)
(***************************************************************************)
Doc == DictOf(call.yaml)
Has(k) == k \in DOMAIN Doc
IsList(k) == Has(k) /\ Doc[k].tag = "list"
ItemsOf(k) == IF IsList(k) THEN Doc[k].items ELSE <<>>
NamesOf(k) == {OperatorNameParse(ItemsOf(k)[i]) : i \in DOMAIN ItemsOf(k)}
RegistryNames == {f.name : f \in AllFunctions(grouped_native_functions)}
RegistryFunction(n) == CHOOSE f \in AllFunctions(grouped_native_functions) : f.name = n
Resolves(k) == NamesOf(k) \subseteq RegistryNames
UnknownAt(k) == {i \in DOMAIN ItemsOf(k) : OperatorNameParse(ItemsOf(k)[i]) \notin RegistryNames}
KeyFor(k) ==
    IF k = "autograd" THEN "Autograd" \o Doc["backend"].items[1]
    ELSE Doc["backend"].items[1]
HasUnknownKey == ~(DOMAIN Doc \subseteq valid_keys)
SupportedWellTyped == Has("supported") => Doc["supported"].tag \in {"list", "null"}
PassesSchema ==
    IsDict(call.yaml) /\ Has("backend") /\ Has("cpp_namespace") /\ ~HasUnknownKey /\ SupportedWellTyped
\* the list is empty: left out, [], or (supported only) null
EmptyList(k) ==
    \/ ~Has(k)
    \/ IsList(k) /\ ItemsOf(k) = <<>>
    \/ k = "supported" /\ Doc[k].tag = "null"
\* the plain list registers: it is non-empty, resolves, and its key is free
PlainRegisters ==
    /\ PassesSchema /\ ~EmptyList("supported")
    /\ Resolves("supported") /\ KeyFor("supported") \notin DOMAIN call.before
\* control reaches the processing of list k
Reached(k) ==
    /\ PassesSchema
    /\ k = "autograd" => (IsList(k) /\ (EmptyList("supported") \/ PlainRegisters))
Failed == call.result.error # NoError
SchemaErrors ==
    {"not_a_mapping", "missing_backend", "missing_cpp_namespace", "supported_not_list", "unexpected_keys"}
ExpectedIndex(k) ==
    [dispatch_key |-> KeyFor(k), use_out_as_primary |-> FALSE,
     index |-> [n \in NamesOf(k) |->
                    [kernel |-> DispatcherName(RegistryFunction(n)),
                     structured |-> FALSE, external |-> TRUE]]]
ListToIndex(k) ==
    /\ IsList(k) /\ ItemsOf(k) # <<>> /\ Resolves(k)
    /\ Has("backend") /\ KeyFor(k) \notin DOMAIN call.before
IndexAdded(k) ==
    /\ KeyFor(k) \in DOMAIN backend_indices
    /\ backend_indices[KeyFor(k)] = ExpectedIndex(k)

(***************************************************************************)
(* C1                                                                      *)
(***************************************************************************)
\* C1 as stated: for every manifest with a coverage list that is a non-empty list of
\* names that all resolve, and whose dispatch key is not in the table before the call,
\* the table holds after the call an index for that key whose key set is the set of the
\* list's names, every entry with kernel = dispatcher.name(schema), structured = false,
\* external = true, and use_out_as_primary = false.
C1_AsStated ==
    call.active => \A k \in CoverageLists : ListToIndex(k) => IndexAdded(k)

\* C1 amended: the same, for a manifest that passes the schema checks and, for the
\* autograd list, whose plain list is empty or registers (so that the list is reached).
C1_IndexBuilt ==
    call.active => \A k \in CoverageLists : (ListToIndex(k) /\ Reached(k)) => IndexAdded(k)

\* both lists are indexed by one call, one of them with a repeated name
C1_Witness ==
    /\ call.active
    /\ \A k \in CoverageLists : ListToIndex(k) /\ Reached(k) /\ IndexAdded(k)
    /\ Len(ItemsOf("supported")) > Cardinality(NamesOf("supported"))
    /\ Cardinality(NamesOf("autograd")) = 2

(***************************************************************************)
(* C2                                                                      *)
(***************************************************************************)
\* C2 as stated: if a name of the supported or the autograd list is not in the registry
\* map, the call fails with the unresolved-reference error.
C2_AsStated ==
    call.active => \A k \in CoverageLists :
        UnknownAt(k) # {} => call.result.error.kind = "invalid_operator"

\* C2 amended: if a name of the supported or the autograd list is not in the registry
\* map, the call always fails and no index for that list's key is added; when the list
\* is reached (the schema checks pass and, for autograd, the plain list is empty or
\* registers) the error is the unresolved-reference error naming the first unknown name.
C2_UnknownNameFails ==
    call.active => \A k \in CoverageLists :
        UnknownAt(k) # {} =>
            /\ Failed
            /\ Has("backend") => (KeyFor(k) \in DOMAIN backend_indices =>
                    /\ KeyFor(k) \in DOMAIN call.before
                    /\ backend_indices[KeyFor(k)] = call.before[KeyFor(k)])
            /\ Reached(k) =>
                    call.result.error =
                        Error("invalid_operator", {ItemsOf(k)[Min(UnknownAt(k))]})

\* an unknown name behind a known one, in a list that is reached
C2_Witness ==
    /\ call.active
    /\ \E k \in CoverageLists :
        /\ Reached(k) /\ Len(ItemsOf(k)) = 2 /\ UnknownAt(k) = {2}
        /\ call.result.error.kind = "invalid_operator"

(***************************************************************************)
(* C3                                                                      *)
(***************************************************************************)
\* a call that would register key KeyFor(k): list k is reached, non-empty and resolves
WouldRegister(k) ==
    Has("backend") /\ Reached(k) /\ IsList(k) /\ ItemsOf(k) # <<>> /\ Resolves(k)

C3_DuplicateRefused ==
    call.active => \A k \in CoverageLists :
        (WouldRegister(k) /\ KeyFor(k) \in DOMAIN call.before) =>
            /\ call.result.error = Error("duplicate_key", {KeyFor(k)})
            /\ backend_indices[KeyFor(k)] = call.before[KeyFor(k)]

C3_EntriesKept ==
    \A key \in DOMAIN backend_indices :
        key \in DOMAIN backend_indices' /\ backend_indices'[key] = backend_indices[key]

\* C3: over any sequence of calls on the shared table no key's index is ever replaced
\* or removed, and a call that would register a key already in the table (plain or
\* Autograd-prefixed) fails with the duplicate-registration error and leaves the entry.
C3_NeverReplaced == [](C3_DuplicateRefused) /\ [][C3_EntriesKept]_vars

\* the Autograd-prefixed key of one backend was taken by the plain key of another
C3_Witness ==
    /\ call.active
    /\ WouldRegister("autograd") /\ KeyFor("autograd") \in DOMAIN call.before
    /\ call.before[KeyFor("autograd")].index # ExpectedIndex("autograd").index
    /\ call.result.error.kind = "duplicate_key"

(***************************************************************************)
(* C4                                                                      *)
(***************************************************************************)
\* C4 as stated: a manifest that lacks backend, lacks cpp_namespace or has a key outside
\* the four valid ones fails with a schema error before any index is added; with such a
\* key the error names every offending key; a manifest with both required fields and no
\* other key raises no schema error.
C4_AsStated ==
    call.active =>
        /\ (~Has("backend") \/ ~Has("cpp_namespace") \/ HasUnknownKey) =>
                (call.result.error.kind \in SchemaErrors /\ backend_indices = call.before)
        /\ HasUnknownKey =>
                call.result.error = Error("unexpected_keys", DOMAIN Doc \ valid_keys)
        /\ (Has("backend") /\ Has("cpp_namespace") /\ ~HasUnknownKey) =>
                call.result.error.kind \notin SchemaErrors

\* C4 amended: the checks run in the order backend, cpp_namespace, type of supported,
\* unknown keys, and the first that fails is the error.  So the error names every
\* offending key when both required fields are there and supported is a list or null;
\* and no schema error is raised when, besides, there is no unknown key.
C4_SchemaErrors ==
    call.active =>
        /\ (~Has("backend") \/ ~Has("cpp_namespace") \/ HasUnknownKey) =>
                (call.result.error.kind \in SchemaErrors /\ backend_indices = call.before)
        /\ (HasUnknownKey /\ Has("backend") /\ Has("cpp_namespace") /\ SupportedWellTyped) =>
                call.result.error = Error("unexpected_keys", DOMAIN Doc \ valid_keys)
        /\ PassesSchema => call.result.error.kind \notin SchemaErrors

\* two unknown keys are named, in a manifest whose lists would otherwise register
C4_Witness ==
    /\ call.active
    /\ Has("backend") /\ Has("cpp_namespace") /\ SupportedWellTyped
    /\ Cardinality(DOMAIN Doc \ valid_keys) = 2
    /\ ItemsOf("supported") # <<>> /\ Resolves("supported")
    /\ call.result.error.kind = "unexpected_keys"

(***************************************************************************)
(* C5                                                                      *)
(***************************************************************************)
\* a valid manifest: it passes the schema checks and its autograd, if there, is a list
ValidManifest == PassesSchema /\ (Has("autograd") => IsList("autograd"))

\* the value of field k has nothing to iterate: left out, null supported, or len 0
NoElements(k) ==
    \/ ~Has(k)
    \/ k = "supported" /\ Doc[k].tag = "null"
    \/ HasLen(Doc[k]) /\ Elements(Doc[k]) = <<>>

\* C5: a valid manifest whose lists are both empty returns (None, None, cpp_namespace,
\* table) with the table as before the call; a call on a valid manifest that returns
\* gives None for a key exactly when its list is empty, and adds an index for the other
\* keys only; no index is added for an empty list.  (Whatever the manifest, a call that
\* returns gives None for a key exactly when the value of its field has no elements.)
C5_EmptyLists ==
    call.active =>
        /\ (ValidManifest /\ EmptyList("supported") /\ EmptyList("autograd")) =>
                /\ call.result = [error |-> NoError, backend_key |-> None,
                                  autograd_key |-> None,
                                  cpp_namespace |-> Doc["cpp_namespace"].items[1],
                                  backend_indices |-> call.before]
                /\ backend_indices = call.before
        /\ (ValidManifest /\ ~Failed) =>
                /\ call.result.backend_key = None <=> EmptyList("supported")
                /\ call.result.autograd_key = None <=> EmptyList("autograd")
        /\ ~Failed =>
                /\ call.result.backend_key = None <=> NoElements("supported")
                /\ call.result.autograd_key = None <=> NoElements("autograd")
                /\ DOMAIN backend_indices = DOMAIN call.before \cup
                        ({call.result.backend_key, call.result.autograd_key} \ {None})
        /\ \A k \in CoverageLists :
                (Has("backend") /\ EmptyList(k)) =>
                    (KeyFor(k) \in DOMAIN backend_indices => KeyFor(k) \in DOMAIN call.before)

\* a valid manifest with an explicit empty list and a null supported has returned
C5_Witness ==
    /\ call.active /\ ValidManifest
    /\ Has("supported") /\ Doc["supported"].tag = "null"
    /\ IsList("autograd") /\ ItemsOf("autograd") = <<>>
    /\ call.result.backend_key = None /\ call.result.autograd_key = None /\ ~Failed

(***************************************************************************)
(* C10                                                                     *)
(***************************************************************************)
\* C10 as stated: whenever the call aborts, the table is as it was before the call.
C10_AsStated == (call.active /\ Failed) => backend_indices = call.before

\* C10 amended: whenever the call aborts, the table is as it was before the call unless
\* the plain list had registered (the error then comes from the autograd list); in that
\* case the plain index, and nothing else, has been added and stays in the table.
C10_TableAfterAbort ==
    (call.active /\ Failed) =>
        IF PlainRegisters
        THEN backend_indices =
                SetItem(call.before, KeyFor("supported"), ExpectedIndex("supported"))
        ELSE backend_indices = call.before

\* the call registered its plain list and then aborted on an unknown autograd name
C10_Witness ==
    /\ call.active /\ Failed
    /\ PlainRegisters /\ UnknownAt("autograd") # {}
    /\ KeyFor("supported") \in DOMAIN backend_indices \ DOMAIN call.before

(***************************************************************************)
(* Vocabulary of the properties of a run.                                  *)
(***************************************************************************)
Artifacts == {"aten_xla_type.h", "aten_xla_type_default.h", "aten_xla_type_default.cpp"}
KeysReturned(r) == runs[r].backend_key # None /\ runs[r].autograd_key # None
PlainIndex(r) == runs[r].backend_indices[runs[r].backend_key]
AutogradIndex(r) == runs[r].backend_indices[runs[r].autograd_key]
InPlain(r, f) == f.name \in DOMAIN PlainIndex(r).index
InAutograd(r, f) == f.name \in DOMAIN AutogradIndex(r).index
Functions == AllFunctions(grouped_native_functions)
Occurrences(l, x) == Cardinality({p \in DOMAIN l : l[p] = x})
\* the position in the registry of the item that holds the function of this name
ItemOf(n) ==
    CHOOSE i \in DOMAIN grouped_native_functions :
        \E j \in DOMAIN grouped_native_functions[i].functions :
            grouped_native_functions[i].functions[j].name = n
Wrote(r, filename) == runs[r].last.filename = filename
YamlList(k) ==
    IF k \in DOMAIN source_yaml.entries /\ source_yaml.entries[k].tag = "list"
    THEN source_yaml.entries[k].items ELSE <<>>

(***************************************************************************)
(* C6                                                                      *)
(***************************************************************************)
C6_WritesNeedBothKeys ==
    \A r \in RunIds :
        /\ runs[r].filenames # {} =>
                /\ KeysReturned(r)
                /\ {runs[r].backend_key, runs[r].autograd_key}
                        \subseteq DOMAIN runs[r].backend_indices
        /\ (runs[r].pc = "done" /\ ~KeysReturned(r)) => runs[r].filenames = {}
        /\ (runs[r].pc = "done" /\ KeysReturned(r)) => runs[r].filenames = Artifacts

C6_Steps ==
    \A r \in RunIds :
        /\ (runs[r].pc = "parsed" /\ ~KeysReturned(r) /\ runs'[r] # runs[r]) =>
                (runs'[r].pc = "done" /\ runs'[r].filenames = {})
        /\ (runs[r].pc \in {"parsed", "wrote_type_h", "wrote_default_h"}) =>
                /\ runs'[r].pc # "raised"
                /\ runs'[r].backend_indices = runs[r].backend_indices
                /\ runs[r].filenames \subseteq runs'[r].filenames

\* C6: an artifact is written only if parse_backend_yaml returned both keys, and then
\* both indices are in the table; with a key None the run ends with nothing written and
\* no error; with both keys it ends with all three artifacts written; no step after the
\* parse raises or changes the table.
C6_Generation == [](C6_WritesNeedBothKeys) /\ [][C6_Steps]_vars

\* a run has ended with the three artifacts written
C6_Witness == runs[1].pc = "done" /\ runs[1].filenames = Artifacts

(***************************************************************************)
(* C7                                                                      *)
(***************************************************************************)
\* C7: in the declaration header every function that the plain or the autograd index
\* covers is declared exactly once (once also when both cover it), nothing else is
\* declared, and the declarations of an earlier registry item precede those of a later.
C7_Declarations ==
    \A r \in RunIds : Wrote(r, "aten_xla_type.h") =>
        LET d == runs[r].last.env.dispatch_xla_declarations
        IN  /\ \A f \in Functions :
                    Occurrences(d, [target |-> "DECLARATION", kernel |-> DispatcherName(f),
                                    schema |-> f.name])
                        = IF InPlain(r, f) \/ InAutograd(r, f) THEN 1 ELSE 0
            /\ \A p \in DOMAIN d : \E f \in Functions : d[p].schema = f.name
            /\ \A p, q \in DOMAIN d : p < q => ItemOf(d[p].schema) <= ItemOf(d[q].schema)

\* the group has two declarations, one of them under both indices, and a later item one
C7_Witness ==
    /\ Wrote(1, "aten_xla_type.h")
    /\ Len(runs[1].last.env.dispatch_xla_declarations) = 3
    /\ \E f \in Functions : InPlain(1, f) /\ InAutograd(1, f)
    /\ \E p \in 1..3 : ItemOf(runs[1].last.env.dispatch_xla_declarations[p].schema) = 2

(***************************************************************************)
(* C8                                                                      *)
(***************************************************************************)
\* the list holds, once each, the fallbacks of the functions in lacking, and no other
FallbacksOf(l, target, lacking) ==
    /\ \A f \in Functions :
            Occurrences(l, Text(target, f)) = IF f \in lacking THEN 1 ELSE 0
    /\ \A p \in DOMAIN l : \E f \in Functions : l[p] = Text(target, f)

\* C8: the fallback declarations and the fallback definitions each hold exactly once the
\* fallback of every function that the plain index or the autograd index lacks, and of
\* no other; dispatch_registrations holds the fallbacks of the functions the plain index
\* lacks and dispatch_autograd_registrations those the autograd index lacks; for
\* supported [add], autograd [sub] every operator other than add and sub occurs once.
C8_Fallbacks ==
    \A r \in RunIds :
        /\ Wrote(r, "aten_xla_type_default.h") =>
            LET d == runs[r].last.env.dispatch_aten_fallback_declarations
            IN  /\ FallbacksOf(d, "NAMESPACED_DECLARATION",
                               {f \in Functions : ~InPlain(r, f) \/ ~InAutograd(r, f)})
                /\ (YamlList("supported") = <<"add">> /\ YamlList("autograd") = <<"sub">>) =>
                        \A f \in Functions :
                            f.name \notin {OperatorNameParse("add"), OperatorNameParse("sub")}
                                => Occurrences(d, Text("NAMESPACED_DECLARATION", f)) = 1
        /\ Wrote(r, "aten_xla_type_default.cpp") =>
            LET e == runs[r].last.env
            IN  /\ FallbacksOf(e.dispatch_aten_fallback_definitions, "NAMESPACED_DEFINITION",
                               {f \in Functions : ~InPlain(r, f) \/ ~InAutograd(r, f)})
                /\ FallbacksOf(e.dispatch_registrations, "REGISTRATION",
                               {f \in Functions : ~InPlain(r, f)})
                /\ FallbacksOf(e.dispatch_autograd_registrations, "REGISTRATION",
                               {f \in Functions : ~InAutograd(r, f)})
                /\ (YamlList("supported") = <<"add">> /\ YamlList("autograd") = <<"sub">>) =>
                        \A f \in Functions :
                            f.name \notin {OperatorNameParse("add"), OperatorNameParse("sub")}
                                => Occurrences(e.dispatch_aten_fallback_definitions,
                                               Text("NAMESPACED_DEFINITION", f)) = 1

\* the fallback source of the manifest {supported: [add], autograd: [sub]} is written
C8_Witness ==
    /\ Wrote(1, "aten_xla_type_default.cpp")
    /\ YamlList("supported") = <<"add">> /\ YamlList("autograd") = <<"sub">>
    /\ runs[1].last.env.dispatch_registrations
            # runs[1].last.env.dispatch_autograd_registrations

(***************************************************************************)
(* C9                                                                      *)
(***************************************************************************)
\* C9: two runs on the same registry and manifest give every artifact the same
\* substitutions, the order of the list entries included.
C9_Deterministic ==
    \A r1, r2 \in RunIds :
        runs[r1].last.filename = runs[r2].last.filename
            => runs[r1].last.env = runs[r2].last.env

====
